---- MODULE Spec2Model ----
(***************************************************************************)
(* State-machine model of the report page, src/app/report/[userId]/page.tsx *)
(* (component ReportPage): the React state of the component, its mount      *)
(* effects, its event handlers and the callbacks of its asynchronous        *)
(* requests (geolocation, place search, report submission).                 *)
(*                                                                          *)
(* JavaScript is single threaded: every handler and every callback runs to  *)
(* completion (or to its next await) before another starts, and React       *)
(* re-renders between two events, so each of them is one atomic action.     *)
(***************************************************************************)
EXTENDS Integers, Sequences, FiniteSets, TLC

(***************************************************************************)
(* Values.  A nullable value is <<>> (null) or <<v>>.  A JavaScript number   *)
(* is NaN or a finite decimal mant * 10^(-exp), kept normalised (no         *)
(* trailing zero in the fraction) so that equality is numeric equality.     *)
(***************************************************************************)
Null == <<>>

Some(v) == <<v>>

NaN == [nan |-> TRUE, mant |-> 0, exp |-> 0]

RECURSIVE Normalize(_, _)
Normalize(m, e) ==
  IF e > 0 /\ m % 10 = 0 THEN Normalize(m \div 10, e - 1)
  ELSE [nan |-> FALSE, mant |-> m, exp |-> e]

\* The number mant * 10^(-exp), e.g. Dec(1907, 2) is 19.07.
Dec(m, e) == Normalize(m, e)

\* ToBoolean of a number: 0, -0 and NaN are falsy.
TruthyNum(n) == ~n.nan /\ n.mant # 0

\* ToBoolean of a nullable number (null is falsy).
TruthyOptNum(o) == o # Null /\ TruthyNum(o[1])

\* ToBoolean of a string: the empty string is falsy.
TruthyStr(s) == s # ""

\* ToBoolean of a nullable string, as in `latParam ? ... : null`.
TruthyOptStr(o) == o # Null /\ TruthyStr(o[1])

Char(s, i) == SubSeq(s, i, i)

IsDigit(c) == \E d \in 0..9 : Char("0123456789", d + 1) = c

DigitVal(c) == CHOOSE d \in 0..9 : Char("0123456789", d + 1) = c

RECURSIVE Pow10(_)
Pow10(n) == IF n = 0 THEN 1 ELSE 10 * Pow10(n - 1)

\* Length of the run of decimal digits of s that starts at position i.
RECURSIVE DigitRun(_, _)
DigitRun(s, i) ==
  IF i <= Len(s) /\ IsDigit(Char(s, i)) THEN 1 + DigitRun(s, i + 1) ELSE 0

\* Value of the n digits of s that start at position i.
RECURSIVE DigitsValue(_, _, _)
DigitsValue(s, i, n) ==
  IF n = 0 THEN 0
  ELSE DigitsValue(s, i, n - 1) * 10 + DigitVal(Char(s, i + n - 1))

(***************************************************************************)
(* parseFloat: the longest prefix of the string that is a decimal literal   *)
(* (optional sign, digits, optional fraction), NaN when there is none.      *)
(* Leading white space, exponents and "Infinity" are not in the inputs of   *)
(* this model and are not parsed.                                           *)
(***************************************************************************)
parseFloat(s) ==
  LET signed == Len(s) >= 1 /\ Char(s, 1) \in {"-", "+"}
      neg    == Len(s) >= 1 /\ Char(s, 1) = "-"
      start  == IF signed THEN 2 ELSE 1
      ni     == DigitRun(s, start)
      dot    == start + ni <= Len(s) /\ Char(s, start + ni) = "."
      nf     == IF dot THEN DigitRun(s, start + ni + 1) ELSE 0
      whole  == DigitsValue(s, start, ni)
      frac   == DigitsValue(s, start + ni + 1, nf)
      mag    == whole * Pow10(nf) + frac
  IN  IF ni = 0 /\ nf = 0 THEN NaN
      ELSE Normalize(IF neg THEN 0 - mag ELSE mag, nf)

\* String.prototype.includes
Includes(s, sub) ==
  \E i \in 1..(Len(s) - Len(sub) + 1) : SubSeq(s, i, i + Len(sub) - 1) = sub


(***************************************************************************)
(* Bounds and input samples of the model.                                   *)
(***************************************************************************)
\* Number of user events (typing, clicks, picks, submits) in one run.
MaxEvents == 5

\* Delay of the debounce timeout, in milliseconds.
DebounceDelay == 300

\* Time passes in steps of this many milliseconds.
TickMs == 150

\* The rating buttons are 1..NumRatingButtons.
NumRatingButtons == 10

Absent == Null

\* Values of the query parameter lat: absent, zero, negative, non-numeric.
LatParams == {Absent, Some("0"), Some("-33.5"), Some("abc")}

\* Values of the query parameter lng: absent, positive.
LngParams == {Absent, Some("72.87")}

UserIds == {"u1"}

\* Positions the geolocation service can report.
GeoPositions == {[lat |-> Dec(1907, 2), lng |-> Dec(7287, 2)]}

\* Coordinates the map widget can report through onLocationSelect.
MapPicks == {[lat |-> Dec(0, 0), lng |-> Dec(0, 0)]}

\* Texts the user can put in the description field.
DescriptionInputs == {"", "Pothole here"}

\* Rating buttons the user clicks.
RatingInputs == {1, 7, NumRatingButtons}

\* Texts the user can put in the search field.
QueryInputs == {"", "Pu", "Pune"}

Pune == [lat |-> "18.52", lon |-> "73.85", display_name |-> "Pune"]

Mumbai == [lat |-> "19.07", lon |-> "72.87", display_name |-> "Mumbai"]

\* Suggestion lists the geocoding service can answer with.
SearchResults == {<<>>, <<Pune>>, <<Mumbai, Pune>>}

\* Responses of the report-submission service: HTTP status and body text.
Responses ==
  { [kind |-> "response", status |-> st, text |-> tx] :
      st \in {200, 500},
      tx \in {"", "{\"status\":\"ok\"}", "{\"message\":\"db error\"}",
              "Internal Server Error", "null"} }

\* Rejections of fetch() and of response.text(), with the error's message.
Rejections ==
  { [kind |-> "fetchError", status |-> 0, text |-> "Failed to fetch"],
    [kind |-> "textError", status |-> 200, text |-> "network error"] }

Outcomes == Responses \cup Rejections

(***************************************************************************)
(* State of the component.  hoverRating is left out: it is read only by the  *)
(* class names of the rating buttons.  The query parameters are fixed for   *)
(* the life of the page.                                                    *)
(***************************************************************************)
VARIABLES
  userId,            \* route parameter
  latParam,          \* searchParams.get("lat"): null or a string
  lngParam,          \* searchParams.get("lng"): null or a string
  geoAvailable,      \* "geolocation" in navigator
  isClient,          \* useState(false), set by the mount effect
  selectedLocation,  \* null or [lat, lng]
  description,
  submitMessage,
  submitting,
  searchQuery,
  suggestions,       \* sequence of places
  rating,
  geo,               \* the getCurrentPosition call: "none", "pending", "resolved", "failed"
  geoRequests,       \* number of getCurrentPosition calls so far
  timer,             \* the pending timeouts: [q: the query closed over, age: ms since set]
  searches,          \* search requests in flight, in issue order: their queries
  inflight,          \* report submissions in flight: [body]
  updates,           \* state setters called by the last run of handleSubmit, in order
  events             \* user events so far

vars == <<userId, latParam, lngParam, geoAvailable, isClient, selectedLocation,
          description, submitMessage, submitting, searchQuery, suggestions,
          rating, geo, geoRequests, timer, searches, inflight, updates, events>>

params == <<userId, latParam, lngParam, geoAvailable>>

latFromQuery == IF TruthyOptStr(latParam) THEN Some(parseFloat(latParam[1])) ELSE Null

lngFromQuery == IF TruthyOptStr(lngParam) THEN Some(parseFloat(lngParam[1])) ELSE Null

\* Initial value of selectedLocation.
InitialLocation ==
  IF TruthyOptNum(latFromQuery) /\ TruthyOptNum(lngFromQuery)
  THEN Some([lat |-> latFromQuery[1], lng |-> lngFromQuery[1]])
  ELSE Null

Init ==
  /\ userId \in UserIds
  /\ latParam \in LatParams
  /\ lngParam \in LngParams
  /\ geoAvailable \in BOOLEAN
  /\ isClient = FALSE
  /\ selectedLocation = InitialLocation
  /\ description = ""
  /\ submitMessage = ""
  /\ submitting = FALSE
  /\ searchQuery = ""
  /\ suggestions = <<>>
  /\ rating = 0
  /\ geo = "none"
  /\ geoRequests = 0
  /\ timer = <<>>
  /\ searches = <<>>
  /\ inflight = <<>>
  /\ updates = <<>>
  /\ events = 0

(***************************************************************************)
(* Mount: the three effects of the first render.                            *)
(***************************************************************************)
\* Condition of the geolocation effect.
NoQueryCoordinate == ~TruthyOptNum(latFromQuery) /\ ~TruthyOptNum(lngFromQuery)

\* Mutant: the effect does not look at the query parameters.
RequestsGeolocationUnconditional == geoAvailable

RequestsGeolocation == NoQueryCoordinate /\ geoAvailable

Mount ==
  /\ ~isClient
  /\ isClient' = TRUE
  /\ IF RequestsGeolocation
     THEN geo' = "pending" /\ geoRequests' = geoRequests + 1
     ELSE UNCHANGED <<geo, geoRequests>>
  /\ timer' = <<[q |-> searchQuery, age |-> 0]>>
  /\ UNCHANGED <<params, selectedLocation, description, submitMessage, submitting,
                 searchQuery, suggestions, rating, searches, inflight, updates,
                 events>>

\* Mutant: the position is adopted only while no coordinate is set.
GeoSuccessIfUnset(position) ==
  /\ geo = "pending"
  /\ geo' = "resolved"
  /\ selectedLocation' =
       IF selectedLocation = Null
       THEN Some([lat |-> position.lat, lng |-> position.lng])
       ELSE selectedLocation
  /\ UNCHANGED <<params, isClient, description, submitMessage, submitting,
                 searchQuery, suggestions, rating, geoRequests, timer, searches,
                 inflight, updates, events>>

\* Success callback of getCurrentPosition.
GeoSuccess(position) ==
  /\ geo = "pending"
  /\ geo' = "resolved"
  /\ selectedLocation' = Some([lat |-> position.lat, lng |-> position.lng])
  /\ UNCHANGED <<params, isClient, description, submitMessage, submitting,
                 searchQuery, suggestions, rating, geoRequests, timer, searches,
                 inflight, updates, events>>

\* Mutant: the error callback asks for the position again.
GeoErrorRetry ==
  /\ geo = "pending"
  /\ geo' = "pending"
  /\ geoRequests' = geoRequests + 1
  /\ UNCHANGED <<params, isClient, selectedLocation, description, submitMessage,
                 submitting, searchQuery, suggestions, rating, timer,
                 searches, inflight, updates, events>>

\* Error callback of getCurrentPosition: console.warn only.
GeoError ==
  /\ geo = "pending"
  /\ geo' = "failed"
  /\ UNCHANGED <<params, isClient, selectedLocation, description, submitMessage,
                 submitting, searchQuery, suggestions, rating, geoRequests, timer,
                 searches, inflight, updates, events>>

(***************************************************************************)
(* Place search.                                                            *)
(***************************************************************************)
\* A user event is possible once the page is rendered (isClient).
UserEvent ==
  /\ isClient
  /\ events < MaxEvents
  /\ events' = events + 1

\* Mutant: the effect has no cleanup, earlier timeouts stay pending.
DebounceTimerNoCleanup(q) ==
  IF q # searchQuery THEN Append(timer, [q |-> q, age |-> 0]) ELSE timer

\* The debounce effect after a render with query q: when the query changed,
\* the cleanup clears the pending timeout and a new one is set.
DebounceTimer(q) ==
  IF q # searchQuery THEN <<[q |-> q, age |-> 0]>> ELSE timer

\* onChange of the search input.
SetSearchQuery(value) ==
  /\ UserEvent
  /\ value # searchQuery
  /\ searchQuery' = value
  /\ timer' = DebounceTimer(value)
  /\ UNCHANGED <<params, isClient, selectedLocation, description, submitMessage,
                 submitting, suggestions, rating, geo, geoRequests, searches,
                 inflight, updates>>

RemoveAt(seq, i) == SubSeq(seq, 1, i - 1) \o SubSeq(seq, i + 1, Len(seq))

\* Time passes while a timeout is not yet due.
Tick ==
  /\ \E i \in 1..Len(timer) : timer[i].age < DebounceDelay
  /\ timer' = [i \in 1..Len(timer) |->
                [q |-> timer[i].q, age |-> timer[i].age + TickMs]]
  /\ UNCHANGED <<params, isClient, selectedLocation, description, submitMessage,
                 submitting, searchQuery, suggestions, rating, geo, geoRequests,
                 searches, inflight, updates, events>>

\* The callback of the pending timeout i, run once its delay has elapsed.
TimerFire(i) ==
  /\ i \in 1..Len(timer)
  /\ timer[i].age >= DebounceDelay
  /\ timer' = RemoveAt(timer, i)
  /\ IF Len(timer[i].q) > 2
     THEN /\ searches' = Append(searches, timer[i].q)
          /\ UNCHANGED suggestions
     ELSE /\ suggestions' = <<>>
          /\ UNCHANGED searches
  /\ UNCHANGED <<params, isClient, selectedLocation, description, submitMessage,
                 submitting, searchQuery, rating, geo, geoRequests, inflight,
                 updates, events>>

\* Mutant: the answer to a request for another query than the current one
\* is dropped.
SearchResolveIgnoreStale(i, data) ==
  /\ i \in 1..Len(searches)
  /\ searches' = RemoveAt(searches, i)
  /\ suggestions' = IF searches[i] = searchQuery THEN data ELSE suggestions
  /\ UNCHANGED <<params, isClient, selectedLocation, description, submitMessage,
                 submitting, searchQuery, rating, geo, geoRequests, timer,
                 inflight, updates, events>>

\* The search request i is answered with the JSON array data.
SearchResolve(i, data) ==
  /\ i \in 1..Len(searches)
  /\ searches' = RemoveAt(searches, i)
  /\ suggestions' = data
  /\ UNCHANGED <<params, isClient, selectedLocation, description, submitMessage,
                 submitting, searchQuery, rating, geo, geoRequests, timer,
                 inflight, updates, events>>

\* Mutant: a failed search keeps the list and reports the failure.
SearchRejectReported(i) ==
  /\ i \in 1..Len(searches)
  /\ searches' = RemoveAt(searches, i)
  /\ submitMessage' = "Failed to search."
  /\ UNCHANGED <<params, isClient, selectedLocation, description, suggestions,
                 submitting, searchQuery, rating, geo, geoRequests, timer,
                 inflight, updates, events>>

\* The search request i fails (fetch or res.json() rejects).
SearchReject(i) ==
  /\ i \in 1..Len(searches)
  /\ searches' = RemoveAt(searches, i)
  /\ suggestions' = <<>>
  /\ UNCHANGED <<params, isClient, selectedLocation, description, submitMessage,
                 submitting, searchQuery, rating, geo, geoRequests, timer,
                 inflight, updates, events>>

\* Mutant: the selection does not touch the debounce timeout.
SuggestionClickUpdatesNoRestart(place) ==
  /\ selectedLocation' =
       Some([lat |-> parseFloat(place.lat), lng |-> parseFloat(place.lon)])
  /\ searchQuery' = place.display_name
  /\ suggestions' = <<>>
  /\ UNCHANGED <<params, isClient, description, submitMessage, submitting,
                 rating, geo, geoRequests, timer, searches, inflight, updates>>

\* Mutant: latitude and longitude of the place are swapped.
SuggestionClickUpdatesSwapped(place) ==
  /\ selectedLocation' =
       Some([lat |-> parseFloat(place.lon), lng |-> parseFloat(place.lat)])
  /\ searchQuery' = place.display_name
  /\ timer' = DebounceTimer(place.display_name)
  /\ suggestions' = <<>>
  /\ UNCHANGED <<params, isClient, description, submitMessage, submitting,
                 rating, geo, geoRequests, searches, inflight, updates>>

\* The state updates of handleSuggestionClick(place).
SuggestionClickUpdates(place) ==
  /\ selectedLocation' =
       Some([lat |-> parseFloat(place.lat), lng |-> parseFloat(place.lon)])
  /\ searchQuery' = place.display_name
  /\ timer' = DebounceTimer(place.display_name)
  /\ suggestions' = <<>>
  /\ UNCHANGED <<params, isClient, description, submitMessage, submitting,
                 rating, geo, geoRequests, searches, inflight, updates>>

\* Click on the idx-th entry of the suggestion list.
HandleSuggestionClick(idx) ==
  /\ UserEvent
  /\ idx \in 1..Len(suggestions)
  /\ SuggestionClickUpdates(suggestions[idx])

\* Mutant: the search form selects the last suggestion of the list.
HandleSearchSubmitLast ==
  /\ UserEvent
  /\ IF Len(suggestions) > 0
     THEN SuggestionClickUpdates(suggestions[Len(suggestions)])
     ELSE UNCHANGED <<params, isClient, selectedLocation, description,
                      submitMessage, submitting, searchQuery, suggestions, rating,
                      geo, geoRequests, timer, searches, inflight, updates>>

\* Submit of the search form (enter in the search input).
HandleSearchSubmit ==
  /\ UserEvent
  /\ IF Len(suggestions) > 0
     THEN SuggestionClickUpdates(suggestions[1])
     ELSE UNCHANGED <<params, isClient, selectedLocation, description,
                      submitMessage, submitting, searchQuery, suggestions, rating,
                      geo, geoRequests, timer, searches, inflight, updates>>

\* The map widget calls onLocationSelect, which is setSelectedLocation.
MapLocationSelect(loc) ==
  /\ UserEvent
  /\ selectedLocation' = Some(loc)
  /\ UNCHANGED <<params, isClient, description, submitMessage, submitting,
                 searchQuery, suggestions, rating, geo, geoRequests, timer,
                 searches, inflight, updates>>

(***************************************************************************)
(* Report form.                                                             *)
(***************************************************************************)
\* onChange of the description textarea.
SetDescription(value) ==
  /\ UserEvent
  /\ value # description
  /\ description' = value
  /\ UNCHANGED <<params, isClient, selectedLocation, submitMessage, submitting,
                 searchQuery, suggestions, rating, geo, geoRequests, timer,
                 searches, inflight, updates>>

\* onClick of the rating button num.
SetRating(num) ==
  /\ UserEvent
  /\ num \in 1..NumRatingButtons
  /\ rating' = num
  /\ UNCHANGED <<params, isClient, selectedLocation, description, submitMessage,
                 submitting, searchQuery, suggestions, geo, geoRequests, timer,
                 searches, inflight, updates>>

ValidationMessage == "Please fill all fields and select location and rating."

SuccessMessage == "Report submitted successfully!"

FailurePrefix == "Failed to submit report. "

\* Mutant: the guard forgets the rating.
InvalidNoRating == ~TruthyStr(description) \/ selectedLocation = Null

\* Mutant: the guard forgets the description.
InvalidNoDescription == selectedLocation = Null \/ rating = 0

\* The guard of handleSubmit: true when the draft is rejected.
Invalid == ~TruthyStr(description) \/ selectedLocation = Null \/ rating = 0

\* JSON.stringify of a number: NaN becomes null.
JSONNumber(n) == IF n.nan THEN Null ELSE Some(n)

\* Mutant: latitude and longitude are swapped in the body.
BodySwapped ==
  [userid      |-> userId,
   description |-> description,
   latt        |-> JSONNumber(selectedLocation[1].lng),
   long        |-> JSONNumber(selectedLocation[1].lat),
   rating      |-> rating]

\* The request body built by handleSubmit, as JSON.stringify writes it.
Body ==
  [userid      |-> userId,
   description |-> description,
   latt        |-> JSONNumber(selectedLocation[1].lat),
   long        |-> JSONNumber(selectedLocation[1].lng),
   rating      |-> rating]

\* Mutant: the submit button is never disabled.
SubmitAlwaysEnabled == TRUE

\* The submit button is rendered with disabled={submitting}.
SubmitEnabled == ~submitting

\* Click on the submit button: handleSubmit up to its first await.
HandleSubmit ==
  /\ UserEvent
  /\ SubmitEnabled
  /\ IF Invalid
     THEN /\ submitMessage' = ValidationMessage
          /\ updates' = <<"setSubmitMessage">>
          /\ UNCHANGED <<submitting, inflight>>
     ELSE /\ submitting' = TRUE
          /\ submitMessage' = ""
          /\ inflight' = Append(inflight, [body |-> Body])
          /\ updates' = <<"setSubmitting", "setSubmitMessage">>
  /\ UNCHANGED <<params, isClient, selectedLocation, description, searchQuery,
                 suggestions, rating, geo, geoRequests, timer, searches>>

\* JSON.parse on the body texts of Responses: the parsed value, or threw.
\* A value is an object with an optional message field, or null.
JSONParse(text) ==
  CASE text = "{\"status\":\"ok\"}" ->
         [threw |-> FALSE, type |-> "object", message |-> Null]
    [] text = "{\"message\":\"db error\"}" ->
         [threw |-> FALSE, type |-> "object", message |-> Some("db error")]
    [] text = "null" ->
         [threw |-> FALSE, type |-> "null", message |-> Null]
    [] OTHER ->
         [threw |-> TRUE, type |-> "undefined", message |-> Null]

\* data: {} for an empty text, the parsed JSON, or {status: text} when
\* JSON.parse throws.
ResponseData(text) ==
  IF ~TruthyStr(text) THEN [threw |-> FALSE, type |-> "object", message |-> Null]
  ELSE IF JSONParse(text).threw
       THEN [threw |-> FALSE, type |-> "object", message |-> Null]
       ELSE JSONParse(text)

\* response.ok
ResponseOk(status) == status \in 200..299

NullMessageError == "Cannot read properties of null (reading 'message')"

HttpErrorMessage(status) == "HTTP error! status: " \o ToString(status)

\* The message of the error the try block of handleSubmit throws for this
\* outcome of the request, null when it throws nothing.
ThrownError(outcome) ==
  IF outcome.kind # "response" THEN Some(outcome.text)
  ELSE IF ResponseOk(outcome.status) THEN Null
  ELSE LET data == ResponseData(outcome.text)
       IN  IF data.type = "null" THEN Some(NullMessageError)
           ELSE IF TruthyOptStr(data.message) THEN Some(data.message[1])
           ELSE Some(HttpErrorMessage(outcome.status))

\* Mutant: the success path does not reset the coordinate.
SettleUpdatesKeepLocation(outcome) ==
  IF ThrownError(outcome) = Null
  THEN /\ submitMessage' = SuccessMessage
       /\ description' = ""
       /\ rating' = 0
       /\ UNCHANGED selectedLocation
       /\ submitting' = FALSE
       /\ updates' = <<"setSubmitMessage", "setDescription", "setRating",
                       "setSubmitting">>
  ELSE /\ submitMessage' = FailurePrefix \o ThrownError(outcome)[1]
       /\ UNCHANGED <<description, rating, selectedLocation>>
       /\ submitting' = FALSE
       /\ updates' = <<"setSubmitMessage", "setSubmitting">>

\* Mutant: the flag is cleared at the end of the try block, not in finally.
SettleUpdatesNoFinally(outcome) ==
  IF ThrownError(outcome) = Null
  THEN /\ submitMessage' = SuccessMessage
       /\ description' = ""
       /\ rating' = 0
       /\ selectedLocation' = Null
       /\ submitting' = FALSE
       /\ updates' = <<"setSubmitMessage", "setDescription", "setRating",
                       "setSelectedLocation", "setSubmitting">>
  ELSE /\ submitMessage' = FailurePrefix \o ThrownError(outcome)[1]
       /\ UNCHANGED <<description, rating, selectedLocation, submitting>>
       /\ updates' = <<"setSubmitMessage">>

\* The state updates after the awaits of handleSubmit, in program order:
\* the try block's tail on success, the catch block on an error, and the
\* finally block.
SettleUpdates(outcome) ==
  IF ThrownError(outcome) = Null
  THEN /\ submitMessage' = SuccessMessage
       /\ description' = ""
       /\ rating' = 0
       /\ selectedLocation' = Null
       /\ submitting' = FALSE
       /\ updates' = <<"setSubmitMessage", "setDescription", "setRating",
                       "setSelectedLocation", "setSubmitting">>
  ELSE /\ submitMessage' = FailurePrefix \o ThrownError(outcome)[1]
       /\ UNCHANGED <<description, rating, selectedLocation>>
       /\ submitting' = FALSE
       /\ updates' = <<"setSubmitMessage", "setSubmitting">>

\* The request i of handleSubmit settles: fetch() rejects, response.text()
\* rejects, or the response arrives with its text.  Between its two awaits
\* the handler reads and writes no state, so both are one step here.
SubmitSettle(i, outcome) ==
  /\ i \in 1..Len(inflight)
  /\ inflight' = RemoveAt(inflight, i)
  /\ SettleUpdates(outcome)
  /\ UNCHANGED <<params, isClient, searchQuery, suggestions, geo, geoRequests,
                 timer, searches, events>>

Next ==
  \/ Mount
  \/ \E position \in GeoPositions : GeoSuccess(position)
  \/ GeoError
  \/ \E value \in QueryInputs : SetSearchQuery(value)
  \/ Tick
  \/ \E i \in 1..Len(timer) : TimerFire(i)
  \/ \E i \in 1..Len(searches), data \in SearchResults : SearchResolve(i, data)
  \/ \E i \in 1..Len(searches) : SearchReject(i)
  \/ \E idx \in 1..Len(suggestions) : HandleSuggestionClick(idx)
  \/ HandleSearchSubmit
  \/ \E loc \in MapPicks : MapLocationSelect(loc)
  \/ \E value \in DescriptionInputs : SetDescription(value)
  \/ \E num \in RatingInputs : SetRating(num)
  \/ HandleSubmit
  \/ \E i \in 1..Len(inflight), outcome \in Outcomes : SubmitSettle(i, outcome)

Spec == Init /\ [][Next]_vars

\* Response delivery is fair: a report submission in flight eventually
\* settles (the response arrives, or the request fails).
FairSpec ==
  /\ Init
  /\ [][Next]_vars
  /\ WF_vars(\E i \in 1..Len(inflight), outcome \in Outcomes : SubmitSettle(i, outcome))

\* Time passes and a due timeout runs its callback.
TimerSpec ==
  /\ Init
  /\ [][Next]_vars
  /\ WF_vars(Tick)
  /\ WF_vars(\E i \in 1..Len(timer) : TimerFire(i))

(***************************************************************************)
(* Properties.                                                              *)
(***************************************************************************)
Last(seq) == seq[Len(seq)]

\* A step that issues a POST to the report-submission endpoint.
IssuesPost == Len(inflight') > Len(inflight)

\* C1: a POST to the report-submission endpoint is issued only by a submit
\* action taken when description is non-empty, the coordinate is set and
\* rating is in 1..10, and its body has a non-empty description, a latitude
\* and a longitude, and a rating in 1..10.
C1_PostOnlyWhenValid ==
  [][IssuesPost =>
       /\ HandleSubmit
       /\ description # ""
       /\ selectedLocation # Null
       /\ rating \in 1..10
       /\ Last(inflight').body.description # ""
       /\ Last(inflight').body.latt # Null
       /\ Last(inflight').body.long # Null
       /\ Last(inflight').body.rating \in 1..10]_vars

\* A report submission is in flight.
C1_Witness == Len(inflight) = 1 /\ inflight[1].body.rating = 7

\* C2: a submit action taken with description = "" or coordinate = null or
\* rating = 0 issues no request, sets the validation message and leaves the
\* submitting flag, description, coordinate and rating unchanged.
C2_InvalidSubmitRejected ==
  [][(HandleSubmit /\ (description = "" \/ selectedLocation = Null \/ rating = 0)) =>
       /\ inflight' = inflight
       /\ submitMessage' = ValidationMessage
       /\ UNCHANGED <<submitting, description, selectedLocation, rating>>]_vars

\* The validation message is shown for a draft that lacks only its rating.
C2_Witness ==
  /\ submitMessage = ValidationMessage
  /\ description # ""
  /\ selectedLocation # Null
  /\ rating = 0
  /\ inflight = <<>>

\* C3: at most one report submission is in flight, and while one is in
\* flight the submitting flag is set and the submit control is disabled.
C3_SingleInFlight ==
  /\ Len(inflight) <= 1
  /\ (inflight # <<>> => (submitting /\ ~SubmitEnabled))

\* One request is in flight and the user has changed the description since.
C3_Witness ==
  /\ Len(inflight) = 1
  /\ submitting
  /\ description # inflight[1].body.description

\* C4: when a submission's response has a successful HTTP status, whatever
\* its body, the resulting state shows the success message and has
\* description = "", rating = 0 and no coordinate.
C4_SuccessResets ==
  [][\A outcome \in Responses :
       (outcome.status \in 200..299 /\ SubmitSettle(1, outcome)) =>
         /\ submitMessage' = SuccessMessage
         /\ description' = ""
         /\ rating' = 0
         /\ selectedLocation' = Null]_vars

\* The state after a successful submission.
C4_Witness ==
  /\ submitMessage = SuccessMessage
  /\ description = ""
  /\ rating = 0
  /\ selectedLocation = Null
  /\ ~submitting
  /\ inflight = <<>>

\* The text the failure message is claimed to carry: the error's text for a
\* network error, the response's message field when present, otherwise the
\* generic HTTP-status message.
ClaimedErrorText(outcome) ==
  IF outcome.kind # "response" THEN outcome.text
  ELSE IF JSONParse(outcome.text).message # Null
       THEN JSONParse(outcome.text).message[1]
       ELSE HttpErrorMessage(outcome.status)

Failed(outcome) == outcome.kind # "response" \/ outcome.status \notin 200..299

\* C5: when a submission fails (network error or HTTP failure status) the
\* message is the failure message with the underlying error's text (the
\* response's message field when present, otherwise the generic HTTP-status
\* message), the submitting flag is false, and description, rating and
\* coordinate are unchanged.
C5_FailureMessage ==
  [][\A outcome \in Outcomes :
       (Failed(outcome) /\ SubmitSettle(1, outcome)) =>
         /\ submitMessage' = FailurePrefix \o ClaimedErrorText(outcome)
         /\ Includes(submitMessage', "Failed")
         /\ submitting' = FALSE
         /\ UNCHANGED <<description, rating, selectedLocation>>]_vars

\* C6: a submit action that passes validation sets the submitting flag; the
\* step that settles its request clears the flag, as the last state update
\* of the attempt; and, under fair response delivery, submitting = true
\* leads to submitting = false.
C6_SubmittingCleared ==
  /\ [][IssuesPost => submitting']_vars
  /\ [][(Len(inflight') < Len(inflight)) =>
          (~submitting' /\ Last(updates') = "setSubmitting")]_vars
  /\ (submitting ~> ~submitting)

\* A request has settled with a failure and the flag is clear again.
C6_Witness ==
  /\ ~submitting
  /\ inflight = <<>>
  /\ updates = <<"setSubmitMessage", "setSubmitting">>

\* C7: the body of a POST carries the user identifier, description,
\* latitude, longitude and rating current at the submit action, and no
\* later step changes the body of a request in flight.
C7_BodyFrozen ==
  [][/\ IssuesPost =>
          Last(inflight').body =
            [userid      |-> userId,
             description |-> description,
             latt        |-> Some(selectedLocation[1].lat),
             long        |-> Some(selectedLocation[1].lng),
             rating      |-> rating]
     /\ \A i \in 1..Len(inflight) :
          Len(inflight') >= Len(inflight) => inflight'[i] = inflight[i]]_vars

\* A request is in flight and rating and coordinate were changed since.
C7_Witness ==
  /\ Len(inflight) = 1
  /\ rating # inflight[1].body.rating
  /\ selectedLocation # Null
  /\ Some(selectedLocation[1].lat) # inflight[1].body.latt

\* The text is, as a whole, a decimal literal (sign, digits, fraction).
NumericText(s) ==
  LET signed == Len(s) >= 1 /\ Char(s, 1) \in {"-", "+"}
      start  == IF signed THEN 2 ELSE 1
      ni     == DigitRun(s, start)
      dot    == start + ni <= Len(s) /\ Char(s, start + ni) = "."
      nf     == IF dot THEN DigitRun(s, start + ni + 1) ELSE 0
  IN  /\ ni + nf > 0
      /\ (start - 1) + ni + (IF dot THEN 1 + nf ELSE 0) = Len(s)

\* Both query parameters are present and numeric.
BothNumeric ==
  /\ latParam # Null /\ NumericText(latParam[1])
  /\ lngParam # Null /\ NumericText(lngParam[1])

\* C8: for every pair of query parameters lat and lng that are both present
\* and numeric (zero and negative values included) the initial coordinate is
\* exactly that pair and no geolocation request is issued.
C8_QueryCoordinate ==
  BothNumeric =>
    /\ geoRequests = 0
    /\ ~isClient =>
         selectedLocation =
           Some([lat |-> parseFloat(latParam[1]), lng |-> parseFloat(lngParam[1])])

\* C9: whenever the query parameters do not supply both a numeric latitude
\* and a numeric longitude and geolocation is available, the mount effect
\* initiates a geolocation request.
C9_GeolocationFallback ==
  (isClient /\ geoAvailable /\ ~BothNumeric) => geoRequests >= 1

\* C10: at most one geolocation request is initiated, and only when the
\* initial coordinate was not seeded from the query parameters.
C10_GeolocationOnce ==
  /\ geoRequests <= 1
  /\ geoRequests >= 1 => InitialLocation = Null

\* The one geolocation request was answered with a position.
C10_Witness ==
  /\ geoRequests = 1
  /\ geo = "resolved"
  /\ selectedLocation # Null
  /\ selectedLocation[1] \in GeoPositions

\* A step that issues a search request.
IssuesSearch == Len(searches') > Len(searches)

\* C11: every change of the query invalidates the pending timeout, so at
\* most one is pending and it holds the current query; a timeout fires only
\* once 300 ms have passed since the last change, and a pending one does
\* fire; a search request is issued only by that timeout, one at a time,
\* for the current (final) query and only when it is longer than 2.
C11_Debounce ==
  /\ [](/\ Len(timer) <= 1
        /\ timer # <<>> => timer[1].q = searchQuery)
  /\ [][searchQuery' # searchQuery => timer' = <<[q |-> searchQuery', age |-> 0]>>]_vars
  /\ [][Len(timer') < Len(timer) =>
          (timer[1].age >= 300 /\ timer' = <<>>)]_vars
  /\ [][IssuesSearch =>
          /\ Len(timer') < Len(timer)
          /\ searches' = Append(searches, searchQuery)
          /\ Len(searchQuery) > 2]_vars
  /\ (timer # <<>> ~> timer = <<>>)

\* After two user events that changed nothing but the query, the timeout
\* has fired and one request, for the final query, is in flight.
C11_Witness ==
  /\ events = 2
  /\ description = "" /\ rating = 0 /\ submitMessage = ""
  /\ selectedLocation = InitialLocation
  /\ searchQuery = "Pune"
  /\ timer = <<>>
  /\ searches = <<"Pune">>

\* C12: in every state in which the search query has length <= 2 the
\* suggestion list is empty.
C12_ShortQueryNoSuggestions ==
  Len(searchQuery) <= 2 => suggestions = <<>>

\* The coordinate of a place of the model, its lat and lon read as decimals.
PlaceCoordinate(place) ==
  IF place = Pune THEN [lat |-> Dec(1852, 2), lng |-> Dec(7385, 2)]
  ELSE [lat |-> Dec(1907, 2), lng |-> Dec(7287, 2)]

\* C13: selecting a suggestion sets the coordinate to the suggestion's
\* (lat, lon) as numbers, sets the query text to its display name and
\* clears the suggestion list; description, rating, message and submitting
\* flag are unchanged.
C13_SuggestionSelected ==
  [][\A idx \in 1..Len(suggestions) :
       HandleSuggestionClick(idx) =>
         /\ selectedLocation' = Some(PlaceCoordinate(suggestions[idx]))
         /\ searchQuery' = suggestions[idx].display_name
         /\ suggestions' = <<>>
         /\ UNCHANGED <<description, rating, submitMessage, submitting>>]_vars

\* Pune was selected from the list.
C13_Witness ==
  /\ selectedLocation = Some([lat |-> Dec(1852, 2), lng |-> Dec(7385, 2)])
  /\ searchQuery = "Pune"
  /\ suggestions = <<>>

\* C14: submitting the search form is the step that selects the first
\* suggestion when the list is non-empty, and changes nothing of the page's
\* state when the list is empty.
C14_SearchSubmitIsFirstClick ==
  [][HandleSearchSubmit =>
       IF Len(suggestions) > 0
       THEN HandleSuggestionClick(1)
       ELSE UNCHANGED <<params, isClient, selectedLocation, description,
                        submitMessage, submitting, searchQuery, suggestions,
                        rating, geo, geoRequests, timer, searches, inflight,
                        updates>>]_vars

\* Mumbai, the first entry of a two-entry list, was just selected.
C14_Witness ==
  /\ selectedLocation = Some([lat |-> Dec(1907, 2), lng |-> Dec(7287, 2)])
  /\ searchQuery = "Mumbai"
  /\ suggestions = <<>>
  /\ timer = <<[q |-> "Mumbai", age |-> 0]>>

\* C15: when a search request fails the suggestion list becomes empty, and
\* message, coordinate, draft fields and submitting flag are unchanged.
C15_SearchFailureSilent ==
  [][\A i \in 1..Len(searches) :
       SearchReject(i) =>
         /\ suggestions' = <<>>
         /\ UNCHANGED <<submitMessage, selectedLocation, description, rating,
                        submitting>>]_vars

\* The only request has settled and the list is empty, next to a draft.
C15_Witness ==
  /\ searchQuery = "Pune"
  /\ timer = <<>>
  /\ searches = <<>>
  /\ suggestions = <<>>
  /\ description # ""

\* The status line is rendered as a failure (red).
ShownAsFailure == Includes(submitMessage, "Failed")

\* C16: every failure message the page sets (validation failure, submission
\* failure) contains the word by which the status line tells failure from
\* success, and the success message does not.
C16_FailureWord ==
  /\ submitMessage = SuccessMessage => ~ShownAsFailure
  /\ (submitMessage # "" /\ submitMessage # SuccessMessage) => ShownAsFailure

\* C17: the coordinate is last-writer-wins between the geolocation result
\* and a manual selection: each of them sets the coordinate to its own
\* value, whatever the coordinate was before.
C17_LastWriterWins ==
  [][/\ \A position \in GeoPositions :
          GeoSuccess(position) => selectedLocation' = Some(position)
     /\ \A loc \in MapPicks :
          MapLocationSelect(loc) => selectedLocation' = Some(loc)
     /\ \A idx \in 1..Len(suggestions) :
          HandleSuggestionClick(idx) =>
            selectedLocation' = Some(PlaceCoordinate(suggestions[idx]))]_vars

\* The geolocation result arrived and a later map pick replaced it.
C17_Witness ==
  /\ geo = "resolved"
  /\ selectedLocation # Null
  /\ selectedLocation[1] \in MapPicks

\* C18: a geolocation failure starts no new request, sets no message and
\* does not write the coordinate; every other state variable is unchanged.
C18_GeoErrorSilent ==
  [][GeoError =>
       /\ geo' = "failed"
       /\ UNCHANGED <<params, isClient, selectedLocation, description,
                      submitMessage, submitting, searchQuery, suggestions,
                      rating, geoRequests, timer, searches, inflight, updates,
                      events>>]_vars

\* The geolocation request failed and the coordinate is still unset.
C18_Witness ==
  /\ geo = "failed"
  /\ geoRequests = 1
  /\ selectedLocation = Null
  /\ submitMessage = ""

\* C19: the answer to any search request in flight, whatever its position
\* in the issue order and whatever the current query, can arrive next, and
\* it replaces the suggestion list.
C19_ResponsesUnchecked ==
  /\ [](\A i \in 1..Len(searches) : \A data \in SearchResults :
          ENABLED SearchResolve(i, data))
  /\ [][\A i \in 1..Len(searches) : \A data \in SearchResults :
          SearchResolve(i, data) => suggestions' = data]_vars

\* The query is short, its timeout has fired and no request is in flight,
\* yet suggestions are shown: a late answer filled the list.
C19_Witness ==
  /\ Len(searchQuery) <= 2
  /\ timer = <<>>
  /\ searches = <<>>
  /\ suggestions # <<>>

LongQueryPending == timer # <<>> /\ Len(timer[1].q) > 2

====
